---- MODULE Spec2Model ----
(***************************************************************************)
(* Growth Pattern API Gateway (api-gateway-python/main.py).                *)
(*                                                                         *)
(* The model follows the two calculation endpoints and the two MongoDB     *)
(* collections they write:                                                 *)
(*   calculations_collection  (the calculation records)                    *)
(*   events_collection        (the event journal, written by log_event)    *)
(*                                                                         *)
(* The service runs on one asyncio event loop.  The streamed endpoint is   *)
(* an async generator: it gives up control only at its `yield`s and at     *)
(* its `await asyncio.sleep(..)` calls, so one action of the model is the  *)
(* code between two such suspension points.  The synchronous endpoint has  *)
(* no await at all (the pymongo calls are blocking calls), so the whole    *)
(* handler is one action.                                                  *)
(*                                                                         *)
(* Every store call (insert_one, update_one) can raise; the model chooses  *)
(* per call whether it does.  math.pow raises OverflowError when the       *)
(* result leaves the range of a double.                                    *)
(***************************************************************************)
EXTENDS Integers, Sequences, FiniteSets, TLC

\* ------------------------------------------------------------------ bounds

\* Largest valid exponent a request of the model carries.
MaxE == 2

\* ------------------------------------------------------- program constants

\* `request.exponent > 100` is rejected.
MaxExponent == 100

\* Largest decimal exponent of a finite double (sys.float_info.max_10_exp):
\* math.pow raises OverflowError beyond the range of a double.
DblMax10Exp == 308

\* The calculation_id the synchronous handler journals an error under when
\* no record was created: the string "unknown".  Record ids are 1, 2, ...
\* (str(ObjectId) values, all different from "unknown").
UnknownId == 0

\* ------------------------------------------------------------------ floats

\* A float is m * 10^e, m an integer.  All floats of the model have a
\* mantissa below 1000, for which Overflows is exact
\* (the largest double is 1.797...e308).
Float(m, e) == [m |-> m, e |-> e]

Overflows(f) ==
    \/ f.e > DblMax10Exp
    \/ f.e = DblMax10Exp /\ f.m >= 2
    \/ f.e = DblMax10Exp - 1 /\ f.m >= 18
    \/ f.e = DblMax10Exp - 2 /\ f.m >= 180

RECURSIVE IntPow(_, _)
IntPow(m, i) == IF i = 0 THEN 1 ELSE m * IntPow(m, i - 1)

\* request.base * i
Mul(f, i) == Float(f.m * i, f.e)

\* math.pow(request.base, i), when it does not raise
Pow(f, i) == Float(IntPow(f.m, i), f.e * i)

\* math.pow(request.base, i) raises OverflowError("math range error")
PowRaises(f, i) == Overflows(Pow(f, i))

\* ---------------------------------------------------------------- requests

\* Bases: negative, zero, small (3, whose multiples and powers differ from
\* step 2 on), and so large (1e200) that its square overflows.
Bases == {Float(-1, 0), Float(0, 0), Float(3, 0), Float(1, 200)}

Exponents == (0 .. MaxE) \cup {MaxExponent + 1}

\* CalculationRequest
Requests == [base : Bases, exponent : Exponents]

BaseInvalid(rq) == rq.base.m <= 0

ExponentInvalidFromBelowZero(rq) ==
    rq.exponent < 0 \/ rq.exponent > MaxExponent

ExponentInvalid(rq) == rq.exponent <= 0 \/ rq.exponent > MaxExponent

Valid(rq) == ~BaseInvalid(rq) /\ ~ExponentInvalid(rq)

\* The detail of the validation error, base checked first.
ValidationDetail(rq) ==
    IF BaseInvalid(rq) THEN "Base must be positive"
    ELSE "Exponent must be between 1 and 100"

\* ------------------------------------------------------------------ state

VARIABLES
    calcs,      \* calculations_collection: record id n is calcs[n]
    events,     \* events_collection: events[id] holds the events whose
                \* calculation_id is id, in insertion (timestamp) order
    statusLog,  \* history: every value the status of record n has been given
    kind,       \* per run: "none", "stream" or "sync"
    req,        \* per run: its CalculationRequest
    pc,         \* per run: where the generator / handler is
    locals,     \* per run: the local variables bound so far
    out,        \* per run (streamed): the messages yielded to the consumer
    resp,       \* per run (synchronous): the HTTP response
    failed,     \* history, per run: the store calls that raised
    connected   \* per run (streamed): the consumer is still connected

vars == <<calcs, events, statusLog, kind, req, pc, locals, out, resp,
          failed, connected>>

\* The requests of one behaviour, numbered in the order they arrive: two,
\* each streamed or synchronous, so that every pair of endpoints is in
\* flight together.
Runs == {1, 2}

\* The values a calculation_id takes: "unknown" and the record ids.
JournalIds == {UnknownId} \cup Runs

NoLocals == [n \in {} |-> 0]

\* Python binds local variable k to v
Bind(l, k, v) == [n \in DOMAIN l \cup {k} |-> IF n = k THEN v ELSE l[n]]

\* 'calculation_id' in locals()
HasId(r) == "calculation_id" \in DOMAIN locals[r]

NoResponse == [status_code |-> 0]

NoRequest == [base |-> Float(0, 0), exponent |-> 0]

Init ==
    /\ calcs = <<>>
    /\ events = [id \in JournalIds |-> <<>>]
    /\ statusLog = <<>>
    /\ kind = [r \in Runs |-> "none"]
    /\ req = [r \in Runs |-> NoRequest]
    /\ pc = [r \in Runs |-> "idle"]
    /\ locals = [r \in Runs |-> NoLocals]
    /\ out = [r \in Runs |-> <<>>]
    /\ resp = [r \in Runs |-> NoResponse]
    /\ failed = [r \in Runs |-> {}]
    /\ connected = [r \in Runs |-> TRUE]

\* ----------------------------------------------------------------- stores

\* calculation_doc
CalculationDoc(rq) ==
    [base |-> rq.base, exponent |-> rq.exponent, status |-> "in_progress",
     completed_at |-> "None"]

\* The id insert_one gives the next record.
NextId == Len(calcs) + 1

CompletedSetTotalsSwapped(rq) ==
    [status |-> "completed", completed_at |-> "set",
     linear_result |-> Pow(rq.base, rq.exponent),
     exponential_result |-> Mul(rq.base, rq.exponent),
     total_steps |-> rq.exponent]

\* The "$set" of the final update_one
CompletedSet(rq) ==
    [status |-> "completed", completed_at |-> "set",
     linear_result |-> Mul(rq.base, rq.exponent),
     exponential_result |-> Pow(rq.base, rq.exponent),
     total_steps |-> rq.exponent]

\* update_one(.., {"$set": set}) applied to one document
SetFields(doc, set) ==
    [k \in DOMAIN doc \cup DOMAIN set |->
        IF k \in DOMAIN set THEN set[k] ELSE doc[k]]

UpdateOneWithoutFilter(cs, id, set) ==
    [n \in DOMAIN cs |-> SetFields(cs[n], set)]

\* calculations_collection.update_one({"_id": id}, {"$set": set})
UpdateOne(cs, id, set) ==
    [n \in DOMAIN cs |-> IF n = id THEN SetFields(cs[n], set) ELSE cs[n]]

\* The status history after update_one set the status of record id.
LogStatus(sl, id, set) ==
    [n \in DOMAIN sl |-> IF n = id THEN Append(sl[n], set.status) ELSE sl[n]]

\* event_doc of log_event(calculation_id, event_type, message, data)
EventDoc(id, type, data) ==
    [calculation_id |-> id, event_type |-> type, data |-> data]

NoData == [n \in {} |-> 0]

StartedEvent(id, rq) ==
    EventDoc(id, "calculation_started",
             [base |-> rq.base, exponent |-> rq.exponent])

LinearEventOfNextStep(id, rq, i) ==
    EventDoc(id, "linear_step",
             [step |-> i + 1, result |-> Mul(rq.base, i + 1),
              type |-> "linear"])

LinearEvent(id, rq, i) ==
    EventDoc(id, "linear_step",
             [step |-> i, result |-> Mul(rq.base, i), type |-> "linear"])

ExponentialEvent(id, rq, i) ==
    EventDoc(id, "exponential_step",
             [step |-> i, result |-> Pow(rq.base, i), type |-> "exponential"])

CompletedEvent(id) == EventDoc(id, "calculation_completed", NoData)

ErrorEvent(id, msg) == EventDoc(id, "calculation_error", [error |-> msg])

InsertOneDropped(cs, doc) == cs

\* calculations_collection.insert_one(doc)
InsertOne(cs, doc) == Append(cs, doc)

\* events_collection.insert_one(event_doc), the last line of log_event
LogEvent(evs, doc) == [evs EXCEPT ![doc.calculation_id] = Append(@, doc)]

\* --------------------------------------------------------------- messages

\* The SSE messages of the streamed endpoint (timestamps and operation
\* labels are left out).
ValidationErrorMsg(rq) == [type |-> "error", error |-> ValidationDetail(rq)]

StartMsg(id, rq) ==
    [type |-> "start", calculation_id |-> id, base |-> rq.base,
     exponent |-> rq.exponent]

StepMsg(rq, i) ==
    [type |-> "step", step |-> i, linear |-> Mul(rq.base, i),
     exponential |-> Pow(rq.base, i)]

CompleteMsgExponentialFromProduct(id, rq) ==
    [type |-> "complete", calculation_id |-> id,
     linear_result |-> Mul(rq.base, rq.exponent),
     exponential_result |-> Mul(rq.base, rq.exponent),
     total_steps |-> rq.exponent]

CompleteMsg(id, rq) ==
    [type |-> "complete", calculation_id |-> id,
     linear_result |-> Mul(rq.base, rq.exponent),
     exponential_result |-> Pow(rq.base, rq.exponent),
     total_steps |-> rq.exponent]

\* error_data of the generator's `except Exception as e`
ExceptionMsg(msg) == [type |-> "error", message |-> msg]

\* ------------------------------------------------- the streamed endpoint

\* Requests are numbered in the order they arrive.
NextRun(r) ==
    /\ pc[r] = "idle"
    /\ IF r = 1 THEN TRUE ELSE kind[r - 1] # "none"

Emit(r, msg) == out' = [out EXCEPT ![r] = Append(@, msg)]

GotoUnlessAnotherSleeps(r, label) ==
    /\ \A q \in Runs \ {r} : pc[q] # "sleep_step"
    /\ pc' = [pc EXCEPT ![r] = label]

Goto(r, label) == pc' = [pc EXCEPT ![r] = label]

Fails(r, ops) == failed' = [failed EXCEPT ![r] = @ \cup ops]

\* An exception reaches `except Exception as e` of the generator, which
\* yields the error message and is suspended there.
Raise(r, msg) == Emit(r, ExceptionMsg(msg)) /\ Goto(r, "yield_error")

\* POST /api/calculate/stream: the generator runs from its start to its
\* first yield.
CalculateGrowthStream(r, rq) ==
    /\ NextRun(r)
    /\ kind' = [kind EXCEPT ![r] = "stream"]
    /\ req' = [req EXCEPT ![r] = rq]
    /\ \/ /\ ~Valid(rq)
          /\ Emit(r, ValidationErrorMsg(rq))
          /\ Goto(r, "yield_invalid")
          /\ UNCHANGED <<calcs, statusLog, locals, failed>>
       \/ /\ Valid(rq)
          /\ calcs' = InsertOne(calcs, CalculationDoc(rq))
          /\ statusLog' = Append(statusLog, <<CalculationDoc(rq).status>>)
          /\ locals' = [locals EXCEPT ![r] = Bind(@, "calculation_id", NextId)]
          /\ Emit(r, StartMsg(NextId, rq))
          /\ Goto(r, "yield_start")
          /\ UNCHANGED failed
       \/ /\ Valid(rq)
          /\ Fails(r, {"insert_one"})
          /\ Raise(r, "insert_one")
          /\ UNCHANGED <<calcs, statusLog, locals>>
    /\ UNCHANGED <<events, resp, connected>>

ResumeAfterInvalidWithoutReturn(r) ==
    /\ pc[r] = "yield_invalid"
    /\ Emit(r, ValidationErrorMsg(req[r]))
    /\ Goto(r, "done")
    /\ UNCHANGED <<calcs, events, statusLog, kind, req, locals, resp,
                   failed, connected>>

\* Resumed after `yield` of the validation error: `return`.
ResumeAfterInvalid(r) ==
    /\ pc[r] = "yield_invalid"
    /\ Goto(r, "done")
    /\ UNCHANGED <<calcs, events, statusLog, kind, req, locals, out, resp,
                   failed, connected>>

\* Resumed after `yield` of the start message: journal calculation_started
\* (outside any inner try), then `await asyncio.sleep(0.1)`.
ResumeAfterStart(r) ==
    /\ pc[r] = "yield_start"
    /\ \/ /\ events' = LogEvent(events,
                                StartedEvent(locals[r].calculation_id, req[r]))
          /\ Goto(r, "sleep_start")
          /\ UNCHANGED <<out, failed>>
       \/ /\ Fails(r, {"calculation_started"})
          /\ Raise(r, "calculation_started")
          /\ UNCHANGED events
    /\ UNCHANGED <<calcs, statusLog, kind, req, locals, resp, connected>>

\* The step the `for` loop turns to next.
NextStep(r) == IF "i" \in DOMAIN locals[r] THEN locals[r].i + 1 ELSE 1

\* Resumed after a sleep with a step left: compute it and yield it.
ResumeStep(r) ==
    /\ pc[r] \in {"sleep_start", "sleep_step"}
    /\ NextStep(r) <= req[r].exponent
    /\ locals' = [locals EXCEPT ![r] = Bind(@, "i", NextStep(r))]
    /\ \/ /\ ~PowRaises(req[r].base, NextStep(r))
          /\ Emit(r, StepMsg(req[r], NextStep(r)))
          /\ Goto(r, "yield_step")
       \/ /\ PowRaises(req[r].base, NextStep(r))
          /\ Raise(r, "math range error")
    /\ UNCHANGED <<calcs, events, statusLog, kind, req, resp, failed,
                   connected>>

ResumeAfterStepSeparateScopes(r) ==
    /\ pc[r] = "yield_step"
    /\ LET id == locals[r].calculation_id
           lin == LinearEvent(id, req[r], locals[r].i)
           exp == ExponentialEvent(id, req[r], locals[r].i)
       IN  \/ /\ events' = LogEvent(LogEvent(events, lin), exp)
              /\ UNCHANGED failed
           \/ /\ events' = LogEvent(events, lin)
              /\ Fails(r, {"exponential_step"})
           \/ /\ events' = LogEvent(events, exp)
              /\ Fails(r, {"linear_step"})
           \/ /\ events' = events
              /\ Fails(r, {"linear_step", "exponential_step"})
    /\ Goto(r, "sleep_step")
    /\ UNCHANGED <<calcs, statusLog, kind, req, locals, out, resp, connected>>

ResumeAfterStepShortSleep(r) ==
    /\ pc[r] = "yield_step"
    /\ LET id == locals[r].calculation_id
           lin == LinearEvent(id, req[r], locals[r].i)
           exp == ExponentialEvent(id, req[r], locals[r].i)
       IN  \/ /\ events' = LogEvent(LogEvent(events, lin), exp)
              /\ UNCHANGED failed
           \/ /\ events' = LogEvent(events, lin)
              /\ Fails(r, {"exponential_step"})
           \/ /\ events' = events
              /\ Fails(r, {"linear_step"})
    /\ Goto(r, "sleep_start")
    /\ UNCHANGED <<calcs, statusLog, kind, req, locals, out, resp, connected>>

\* Resumed after `yield` of a step: journal linear_step, then
\* exponential_step, in one try whose except only prints; then
\* `await asyncio.sleep(1)`.
ResumeAfterStep(r) ==
    /\ pc[r] = "yield_step"
    /\ LET id == locals[r].calculation_id
           lin == LinearEvent(id, req[r], locals[r].i)
           exp == ExponentialEvent(id, req[r], locals[r].i)
       IN  \/ /\ events' = LogEvent(LogEvent(events, lin), exp)
              /\ UNCHANGED failed
           \/ /\ events' = LogEvent(events, lin)
              /\ Fails(r, {"exponential_step"})
           \/ /\ events' = events
              /\ Fails(r, {"linear_step"})
    /\ Goto(r, "sleep_step")
    /\ UNCHANGED <<calcs, statusLog, kind, req, locals, out, resp, connected>>

\* Resumed after a sleep with no step left (the `for` loop is exhausted):
\* the final update_one and the calculation_completed journal write, in one
\* try whose except only prints; then the complete message is yielded.
ResumeFinish(r) ==
    /\ pc[r] \in {"sleep_start", "sleep_step"}
    /\ NextStep(r) > req[r].exponent
    /\ LET id == locals[r].calculation_id
           set == CompletedSet(req[r])
       IN  /\ \/ /\ calcs' = UpdateOne(calcs, id, set)
                 /\ statusLog' = LogStatus(statusLog, id, set)
                 /\ events' = LogEvent(events, CompletedEvent(id))
                 /\ UNCHANGED failed
              \/ /\ calcs' = UpdateOne(calcs, id, set)
                 /\ statusLog' = LogStatus(statusLog, id, set)
                 /\ Fails(r, {"calculation_completed"})
                 /\ UNCHANGED events
              \/ /\ Fails(r, {"update_one"})
                 /\ UNCHANGED <<calcs, statusLog, events>>
           /\ Emit(r, CompleteMsg(id, req[r]))
    /\ Goto(r, "yield_complete")
    /\ UNCHANGED <<kind, req, locals, resp, connected>>

\* Resumed after `yield` of the complete message: the generator ends.
ResumeAfterComplete(r) ==
    /\ pc[r] = "yield_complete"
    /\ Goto(r, "done")
    /\ UNCHANGED <<calcs, events, statusLog, kind, req, locals, out, resp,
                   failed, connected>>

\* Resumed after `yield` of the error message: journal calculation_error
\* if a calculation_id is bound, in a try whose except passes.
ResumeAfterError(r) ==
    /\ pc[r] = "yield_error"
    /\ \/ /\ ~HasId(r)
          /\ UNCHANGED <<events, failed>>
       \/ /\ HasId(r)
          /\ events' = LogEvent(events,
                 ErrorEvent(locals[r].calculation_id, out[r][Len(out[r])].message))
          /\ UNCHANGED failed
       \/ /\ HasId(r)
          /\ Fails(r, {"calculation_error"})
          /\ UNCHANGED events
    /\ Goto(r, "done")
    /\ UNCHANGED <<calcs, statusLog, kind, req, locals, out, resp, connected>>

\* The places where the generator is suspended.
Suspended ==
    {"yield_invalid", "yield_start", "sleep_start", "yield_step",
     "sleep_step", "yield_complete", "yield_error"}

\* The consumer disconnects: the response task is cancelled and the
\* suspended generator is never resumed (CancelledError and GeneratorExit
\* are not `Exception`s, so no handler of the generator runs).
DisconnectUnnoticed(r) ==
    /\ pc[r] \in Suspended
    /\ connected[r]
    /\ connected' = [connected EXCEPT ![r] = FALSE]
    /\ UNCHANGED <<calcs, events, statusLog, kind, req, pc, locals, out, resp,
                   failed>>

Disconnect(r) ==
    /\ pc[r] \in Suspended
    /\ connected' = [connected EXCEPT ![r] = FALSE]
    /\ Goto(r, "cancelled")
    /\ UNCHANGED <<calcs, events, statusLog, kind, req, locals, out, resp,
                   failed>>

\* ---------------------------------------------- the synchronous endpoint

\* linear_logs / exponential_logs (StepLog without label and timestamp)
LinearLogs(rq) ==
    [i \in 1 .. rq.exponent |-> [step |-> i, result |-> Mul(rq.base, i)]]

ExponentialLogsFromProduct(rq) ==
    [i \in 1 .. rq.exponent |-> [step |-> i, result |-> Mul(rq.base, i)]]

ExponentialLogs(rq) ==
    [i \in 1 .. rq.exponent |-> [step |-> i, result |-> Pow(rq.base, i)]]

\* Some math.pow of the loop raises.
LoopRaises(rq) == \E i \in 1 .. rq.exponent : PowRaises(rq.base, i)

\* CalculationResponse
CalculationResponse(id, rq) ==
    [calculation_id |-> id, base |-> rq.base, exponent |-> rq.exponent,
     linear_result |-> Mul(rq.base, rq.exponent),
     exponential_result |-> Pow(rq.base, rq.exponent),
     linear_logs |-> LinearLogs(rq),
     exponential_logs |-> ExponentialLogs(rq),
     total_steps |-> rq.exponent]

ClientErrorCaughtAsException(rq) ==
    [status_code |-> 500, detail |-> ValidationDetail(rq)]

\* raise HTTPException(status_code=400, ..), re-raised by
\* `except HTTPException: raise`
ClientError(rq) == [status_code |-> 400, detail |-> ValidationDetail(rq)]

\* raise HTTPException(status_code=500, detail=str(e))
ServerError(msg) == [status_code |-> 500, detail |-> msg]

Success(id, rq) == [status_code |-> 200, body |-> CalculationResponse(id, rq)]

\* `except Exception as e` of the handler, entered with the journal evs and
\* the store calls ops having raised: journal calculation_error under id,
\* then answer 500.  When that log_event raises too, the exception leaves
\* the handler and the server answers 500 itself.
Except(r, evs, id, msg, ops) ==
    \/ /\ events' = LogEvent(evs, ErrorEvent(id, msg))
       /\ Fails(r, ops)
       /\ resp' = [resp EXCEPT ![r] = ServerError(msg)]
    \/ /\ events' = evs
       /\ Fails(r, ops \cup {"calculation_error"})
       /\ resp' = [resp EXCEPT ![r] = ServerError("Internal Server Error")]

\* POST /api/calculate: the whole handler (it never awaits).
CalculateGrowth(r, rq) ==
    /\ NextRun(r)
    /\ kind' = [kind EXCEPT ![r] = "sync"]
    /\ req' = [req EXCEPT ![r] = rq]
    /\ Goto(r, "done")
    /\ LET id == NextId
           inserted == InsertOne(calcs, CalculationDoc(rq))
           started == LogEvent(events, StartedEvent(id, rq))
           set == CompletedSet(rq)
           Created == /\ statusLog' = Append(statusLog,
                                             <<CalculationDoc(rq).status>>)
                      /\ locals' = [locals EXCEPT
                                      ![r] = Bind(@, "calculation_id", id)]
       IN  \/ /\ ~Valid(rq)
              /\ resp' = [resp EXCEPT ![r] = ClientError(rq)]
              /\ UNCHANGED <<calcs, events, statusLog, locals, failed>>
           \/ /\ Valid(rq)
              /\ Except(r, events, UnknownId, "insert_one", {"insert_one"})
              /\ UNCHANGED <<calcs, statusLog, locals>>
           \/ /\ Valid(rq)
              /\ calcs' = inserted
              /\ Created
              /\ Except(r, events, id, "calculation_started",
                        {"calculation_started"})
           \/ /\ Valid(rq)
              /\ LoopRaises(rq)
              /\ calcs' = inserted
              /\ Created
              /\ Except(r, started, id, "math range error", {})
           \/ /\ Valid(rq)
              /\ ~LoopRaises(rq)
              /\ calcs' = inserted
              /\ Created
              /\ Except(r, started, id, "update_one", {"update_one"})
           \/ /\ Valid(rq)
              /\ ~LoopRaises(rq)
              /\ calcs' = UpdateOne(inserted, id, set)
              /\ statusLog' = Append(statusLog,
                                     <<CalculationDoc(rq).status, set.status>>)
              /\ locals' = [locals EXCEPT ![r] = Bind(@, "calculation_id", id)]
              /\ Except(r, started, id, "calculation_completed",
                        {"calculation_completed"})
           \/ /\ Valid(rq)
              /\ ~LoopRaises(rq)
              /\ calcs' = UpdateOne(inserted, id, set)
              /\ statusLog' = Append(statusLog,
                                     <<CalculationDoc(rq).status, set.status>>)
              /\ locals' = [locals EXCEPT ![r] = Bind(@, "calculation_id", id)]
              /\ events' = LogEvent(started, CompletedEvent(id))
              /\ resp' = [resp EXCEPT ![r] = Success(id, rq)]
              /\ UNCHANGED failed
    /\ UNCHANGED <<out, connected>>

\* ------------------------------------------------------------ the system

Next ==
    \E r \in Runs :
        \/ \E rq \in Requests : CalculateGrowthStream(r, rq)
        \/ ResumeAfterInvalid(r)
        \/ ResumeAfterStart(r)
        \/ ResumeStep(r)
        \/ ResumeAfterStep(r)
        \/ ResumeFinish(r)
        \/ ResumeAfterComplete(r)
        \/ ResumeAfterError(r)
        \/ Disconnect(r)
        \/ \E rq \in Requests : CalculateGrowth(r, rq)

Spec == Init /\ [][Next]_vars

\* The generator of run r is resumed: the consumer took the message it was
\* suspended on, or its asyncio.sleep elapsed.
Resume(r) ==
    \/ ResumeAfterInvalid(r)
    \/ ResumeAfterStart(r)
    \/ ResumeStep(r)
    \/ ResumeAfterStep(r)
    \/ ResumeFinish(r)
    \/ ResumeAfterComplete(r)
    \/ ResumeAfterError(r)

\* The event loop resumes every generator that can be resumed: timers
\* elapse, store calls return, and a connected consumer takes every message.
\* Requests and disconnects are the clients' choice.
FairSpec == Spec /\ \A r \in Runs : WF_vars(Resume(r))

\* ================================================================ claims

\* A request outside the documented domain: base <= 0 or exponent not in
\* 1..100.
OutOfRange(rq) == rq.base.m <= 0 \/ rq.exponent < 1 \/ rq.exponent > 100

\* The run has been started.
Started(r) == kind[r] # "none"

\* The record id of a run that created a record.
IdOf(r) == locals[r].calculation_id

Last(s) == s[Len(s)]

RejectedText(rq) ==
    IF rq.base.m <= 0 THEN "Base must be positive"
    ELSE "Exponent must be between 1 and 100"

\* What the caller of a rejected request has received.
RejectedOutcome(r) ==
    /\ ~HasId(r)
    /\ failed[r] = {}
    /\ kind[r] = "stream" =>
          /\ Len(out[r]) = 1
          /\ out[r][1].type = "error"
          /\ out[r][1].error = RejectedText(req[r])
    /\ kind[r] = "sync" =>
          /\ resp[r].status_code = 400
          /\ resp[r].detail = RejectedText(req[r])

\* A step of a rejected run writes to neither store.
RejectedStep(r) ==
    (pc'[r] # pc[r] /\ OutOfRange(req'[r])) =>
        (calcs' = calcs /\ events' = events)

\* C1: a request with base <= 0 or exponent outside [1,100] fails
\* validation before any persistence, on both endpoints: no step of its run
\* inserts a record or writes a journal event, whatever the stores hold, and
\* the caller gets the validation error (streamed: that one error message
\* and nothing else; synchronous: status 400).
C1_InvalidRequestNeverPersists ==
    /\ [](\A r \in Runs : (Started(r) /\ OutOfRange(req[r])) => RejectedOutcome(r))
    /\ [][\A r \in Runs : RejectedStep(r)]_vars

\* A streamed request with exponent 101 has been rejected, and its stream
\* has ended, while the stores hold the record and the journal events of an
\* earlier synchronous run.
C1_Witness ==
    /\ kind[1] = "sync" /\ resp[1].status_code = 200
    /\ kind[2] = "stream" /\ pc[2] = "done"
    /\ req[2].base.m > 0 /\ req[2].exponent > 100
    /\ Len(calcs) = 1 /\ Len(events[1]) = 2

\* The messages a streamed run is to deliver, as <<type, step>> pairs:
\* start, step 1 .. step E, complete.
Shape(m) == IF m.type = "step" THEN <<"step", m.step>> ELSE <<m.type, 0>>

Shapes(msgs) == [k \in 1 .. Len(msgs) |-> Shape(msgs[k])]

FullShapes(E) ==
    <<<<"start", 0>>>> \o [i \in 1 .. E |-> <<"step", i>>]
                       \o <<<<"complete", 0>>>>

IsPrefix(s, t) == Len(s) <= Len(t) /\ \A k \in 1 .. Len(s) : s[k] = t[k]

\* The step indices of the step messages delivered, in order.
StepsOf(msgs) ==
    LET idx == {k \in 1 .. Len(msgs) : msgs[k].type = "step"}
    IN  {msgs[k].step : k \in idx}

HasType(msgs, t) == \E k \in 1 .. Len(msgs) : msgs[k].type = t

\* C2: in a streamed run of a valid request whose consumer stays connected
\* and whose store calls all succeed, the consumer sees one start message,
\* then the step messages 1, 2, .., E in order without gap or repeat, then
\* one complete message, and nothing else: at every moment the messages
\* delivered are a prefix of that sequence, and all of it once the run ends.
C2_StreamDeliversStartStepsComplete ==
    \A r \in Runs :
        (/\ kind[r] = "stream"
         /\ ~OutOfRange(req[r])
         /\ connected[r]
         /\ failed[r] = {})
        => /\ IsPrefix(Shapes(out[r]), FullShapes(req[r].exponent))
           /\ pc[r] = "done" => Shapes(out[r]) = FullShapes(req[r].exponent)

\* The run has ended with a terminal signal: a complete or error message
\* (streamed), a success or server-error response (synchronous).
EndedWithSignal(r) ==
    /\ pc[r] = "done"
    /\ kind[r] = "stream" => Last(out[r]).type \in {"complete", "error"}
    /\ kind[r] = "sync" => resp[r].status_code \in {200, 500}

\* C3: once a run that created a record has ended with a terminal signal,
\* its record is not in_progress any more (a failed run's record has been
\* moved to status error).
C3_EndedRunLeavesNoRecordInProgress ==
    \A r \in Runs :
        (HasId(r) /\ EndedWithSignal(r)) =>
            calcs[IdOf(r)].status # "in_progress"

\* The record of run r is completed and stores what message m carries.
StoredAsCompleted(r, m) ==
    /\ calcs[IdOf(r)].status = "completed"
    /\ calcs[IdOf(r)].completed_at = "set"
    /\ calcs[IdOf(r)].linear_result = m.linear_result
    /\ calcs[IdOf(r)].exponential_result = m.exponential_result
    /\ calcs[IdOf(r)].total_steps = m.total_steps

NoStepEvents(id) ==
    \A k \in 1 .. Len(events[id]) :
        events[id][k].event_type \notin {"linear_step", "exponential_step"}

\* The complete message carries the totals B*E and B^E and the step count E.
CorrectTotals(m, rq) ==
    /\ m.type = "complete"
    /\ m.linear_result = Mul(rq.base, rq.exponent)
    /\ m.exponential_result = Pow(rq.base, rq.exponent)
    /\ m.total_steps = rq.exponent

\* C5: a streamed run of a valid request in which every step journal write
\* raised (the linear_step write of each step, after which the
\* exponential_step write is not reached) and no other store call did has,
\* once ended, delivered start, all E steps and a complete message with the
\* correct totals, and no error message.
C5_StepJournalFailuresLeaveStreamIntact ==
    \A r \in Runs :
        (/\ kind[r] = "stream"
         /\ ~OutOfRange(req[r])
         /\ pc[r] = "done"
         /\ failed[r] = {"linear_step"}
         /\ NoStepEvents(IdOf(r)))
        => /\ Shapes(out[r]) = FullShapes(req[r].exponent)
           /\ CorrectTotals(Last(out[r]), req[r])
           /\ ~HasType(out[r], "error")

\* C6: in a streamed run of a valid request whose record store calls
\* (insert_one, update_one) succeeded, whichever journal writes raised, the
\* steps 1 .. E have all been emitted once the run has ended.
C6_JournalFailuresNeverStopSteps ==
    \A r \in Runs :
        (/\ kind[r] = "stream"
         /\ ~OutOfRange(req[r])
         /\ pc[r] = "done"
         /\ "insert_one" \notin failed[r]
         /\ "update_one" \notin failed[r])
        => StepsOf(out[r]) = 1 .. req[r].exponent

Terminal == {"completed", "error"}

\* The status of record id was written as in_progress first and at most
\* once more, to a terminal state, and is what the record holds.
StatusHistoryOk(id) ==
    /\ statusLog[id] \in {<<"in_progress">>} \cup
                         {<<"in_progress", t>> : t \in Terminal}
    /\ calcs[id].status = Last(statusLog[id])

\* A step keeps every record, changes a status only from in_progress to a
\* terminal state, and adds records only as in_progress.
StatusStep ==
    /\ \A id \in DOMAIN calcs :
          /\ id \in DOMAIN calcs'
          /\ calcs'[id].status # calcs[id].status =>
                (calcs[id].status = "in_progress"
                 /\ calcs'[id].status \in Terminal)
    /\ \A id \in DOMAIN calcs' \ DOMAIN calcs :
          statusLog'[id][1] = "in_progress"

\* C7: under every interleaving of streamed and synchronous runs, each
\* record is created with status in_progress and its status is written at
\* most once more, from in_progress to completed or error; a record in a
\* terminal state never changes status again.
C7_OneStatusTransition ==
    /\ [](/\ Len(statusLog) = Len(calcs)
          /\ \A id \in 1 .. Len(calcs) : StatusHistoryOk(id))
    /\ [][StatusStep]_vars

\* A streamed run completed its record while the record of a later
\* synchronous run, completed in between, stayed as it was.
C7_Witness ==
    /\ kind[1] = "stream" /\ kind[2] = "sync"
    /\ Len(calcs) = 2
    /\ statusLog[1] = <<"in_progress", "completed">>
    /\ statusLog[2] = <<"in_progress", "completed">>
    /\ pc[1] = "yield_complete"

\* The stores show that no store call of the synchronous run raised: its
\* record is completed and its journal holds started and completed.
AllStored(r) ==
    /\ HasId(r)
    /\ calcs[IdOf(r)].status = "completed"
    /\ \E k \in 1 .. Len(events[IdOf(r)]) :
          events[IdOf(r)][k].event_type = "calculation_started"
    /\ \E k \in 1 .. Len(events[IdOf(r)]) :
          events[IdOf(r)][k].event_type = "calculation_completed"

\* C8: the synchronous endpoint answers 400 exactly when the request fails
\* validation, and 500 whenever a store call raised after validation: a
\* store failure never gives 400 or success, an invalid request never 500.
C8_ClientErrorIffInvalid ==
    \A r \in Runs :
        kind[r] = "sync" =>
            /\ resp[r].status_code \in {200, 400, 500}
            /\ resp[r].status_code = 400 <=> OutOfRange(req[r])
            /\ failed[r] # {} => resp[r].status_code = 500
            /\ resp[r].status_code = 200 => (failed[r] = {} /\ AllStored(r))

\* One synchronous run was rejected with 400, another failed with 500 on a
\* store call that raised.
C8_Witness ==
    /\ kind[1] = "sync" /\ resp[1].status_code = 400
    /\ kind[2] = "sync" /\ resp[2].status_code = 500
    /\ "update_one" \in failed[2]

\* C9 as stated: every event of the journal carries the calculation_id of a
\* record that exists (a run that failed before its record was created
\* wrote no event).
C9_EveryEventReferencesARecord ==
    \A id \in JournalIds :
        events[id] # <<>> => id \in 1 .. Len(calcs)

\* The synchronous runs whose insert_one raised and whose calculation_error
\* write succeeded.
OrphanErrors ==
    {r \in Runs : /\ kind[r] = "sync"
                  /\ "insert_one" \in failed[r]
                  /\ "calculation_error" \notin failed[r]}

\* C9 as amended: every event of the journal carries the calculation_id of
\* a record that exists, except the calculation_error events the
\* synchronous endpoint writes under the calculation_id "unknown", one per
\* synchronous run whose initial insert raised; a streamed run whose initial
\* insert raised writes no event.
C9_EveryEventReferencesARecordOrUnknown ==
    /\ \A id \in JournalIds :
          /\ events[id] # <<>> => (id \in 1 .. Len(calcs) \/ id = UnknownId)
          /\ \A k \in 1 .. Len(events[id]) : events[id][k].calculation_id = id
    /\ \A k \in 1 .. Len(events[UnknownId]) :
          /\ events[UnknownId][k].event_type = "calculation_error"
          /\ events[UnknownId][k].data.error = "insert_one"
    /\ Len(events[UnknownId]) = Cardinality(OrphanErrors)
    /\ \A r \in Runs :
          (kind[r] = "stream" /\ ~HasId(r)) =>
              "calculation_error" \notin failed[r]

\* The insert of a streamed run and of a synchronous run raised; only the
\* synchronous run journaled an error, under "unknown", beside no record.
C9_Witness ==
    /\ kind[1] = "stream" /\ "insert_one" \in failed[1] /\ pc[1] = "done"
    /\ kind[2] = "sync" /\ "insert_one" \in failed[2]
    /\ Len(events[UnknownId]) = 1
    /\ Len(calcs) = 0

\* The journal a completed calculation of E steps is to hold, as
\* <<event_type, step>> pairs.
EventShape(e) ==
    IF e.event_type \in {"linear_step", "exponential_step"}
    THEN <<e.event_type, e.data.step>>
    ELSE <<e.event_type, 0>>

EventShapes(evs) == [k \in 1 .. Len(evs) |-> EventShape(evs[k])]

FullJournal(E) ==
    <<<<"calculation_started", 0>>>>
    \o [k \in 1 .. 2 * E |->
          IF k % 2 = 1 THEN <<"linear_step", (k + 1) \div 2>>
          ELSE <<"exponential_step", k \div 2>>]
    \o <<<<"calculation_completed", 0>>>>

\* The run completed: a complete message (streamed), a success response
\* (synchronous).
Completed(r) ==
    /\ pc[r] = "done"
    /\ kind[r] = "stream" => Last(out[r]).type = "complete"
    /\ kind[r] = "sync" => resp[r].status_code = 200

\* C10: when a run of either endpoint completed and none of its store calls
\* raised, the journal holds under its calculation id calculation_started,
\* then linear_step and exponential_step of step 1, .., of step E, then
\* calculation_completed.
C10_EveryStepJournaled ==
    \A r \in Runs :
        (Started(r) /\ Completed(r) /\ failed[r] = {}) =>
            EventShapes(events[IdOf(r)]) = FullJournal(req[r].exponent)

\* B * n and B^n recomputed by repeated addition and multiplication.
RECURSIVE Times(_, _)
Times(f, n) ==
    IF n = 0 THEN Float(0, f.e)
    ELSE Float(Times(f, n - 1).m + f.m, f.e)

RECURSIVE Power(_, _)
Power(f, n) ==
    IF n = 0 THEN Float(1, 0)
    ELSE Float(Power(f, n - 1).m * f.m, Power(f, n - 1).e + f.e)

\* The step messages among msgs, in the order delivered.
RECURSIVE StepMsgs(_)
StepMsgs(msgs) ==
    IF msgs = <<>> THEN <<>>
    ELSE IF msgs[1].type = "step" THEN <<msgs[1]>> \o StepMsgs(Tail(msgs))
    ELSE StepMsgs(Tail(msgs))

\* C11: whenever a streamed run has emitted its complete message, the
\* totals that message carries are B*E and B^E, they are the linear and
\* exponential results of the step message with index E, and its
\* total_steps is E, the number of step messages emitted.
C11_CompleteTotalsMatchLastStep ==
    \A r \in Runs :
        (kind[r] = "stream" /\ HasType(out[r], "complete")) =>
            LET m == Last(out[r])
                steps == StepMsgs(out[r])
                E == req[r].exponent
            IN  /\ m.type = "complete"
                /\ m.linear_result = Times(req[r].base, E)
                /\ m.exponential_result = Power(req[r].base, E)
                /\ m.total_steps = E
                /\ Len(steps) = E
                /\ steps[E].step = E
                /\ steps[E].linear = m.linear_result
                /\ steps[E].exponential = m.exponential_result

\* A streamed run of base 3, exponent 2 has emitted complete with totals 6
\* and 9.
C11_Witness ==
    \E r \in Runs :
        /\ kind[r] = "stream" /\ HasType(out[r], "complete")
        /\ req[r] = [base |-> Float(3, 0), exponent |-> 2]
        /\ Last(out[r]).linear_result = Float(6, 0)
        /\ Last(out[r]).exponential_result = Float(9, 0)

\* C12: every answer of the synchronous endpoint to a valid request, none of
\* whose store calls raised, is a success carrying linear_logs and
\* exponential_logs of length E whose i-th entries have step i and results
\* B*i and B^i, totals equal to the last entries, and total_steps E.
C12_SyncReturnsLogs ==
    \A r \in Runs :
        (kind[r] = "sync" /\ ~OutOfRange(req[r]) /\ failed[r] = {}) =>
            /\ resp[r].status_code = 200
            /\ LET b == resp[r].body
                   E == req[r].exponent
               IN  /\ Len(b.linear_logs) = E
                   /\ Len(b.exponential_logs) = E
                   /\ \A i \in 1 .. E :
                        /\ b.linear_logs[i] =
                             [step |-> i, result |-> Times(req[r].base, i)]
                        /\ b.exponential_logs[i] =
                             [step |-> i, result |-> Power(req[r].base, i)]
                   /\ b.linear_result = b.linear_logs[E].result
                   /\ b.exponential_result = b.exponential_logs[E].result
                   /\ b.total_steps = E

\* Some power B^i, i in 1..E, exceeds the representable range.
PowerExceedsRange(rq) ==
    \E i \in 1 .. rq.exponent : Overflows(Power(rq.base, i))

\* C13: a run of a valid request in which some B^i exceeds the representable
\* range, and none of whose store calls raised, never reports an error: its
\* stream carries no error message and ends with complete, its synchronous
\* answer is a success.
C13_OverflowNeverFaults ==
    \A r \in Runs :
        (Started(r) /\ ~OutOfRange(req[r]) /\ PowerExceedsRange(req[r])
            /\ failed[r] = {}) =>
            /\ kind[r] = "stream" =>
                 /\ ~HasType(out[r], "error")
                 /\ pc[r] = "done" => Last(out[r]).type = "complete"
            /\ kind[r] = "sync" => resp[r].status_code = 200

\* The (step, linear, exponential) triples of a synchronous response body.
SyncTriples(b) ==
    [i \in 1 .. Len(b.linear_logs) |->
        <<b.linear_logs[i].step, b.linear_logs[i].result,
          b.exponential_logs[i].result>>]

\* The (step, linear, exponential) triples of the step messages of a stream.
StreamTriples(msgs) ==
    LET steps == StepMsgs(msgs)
    IN  [i \in 1 .. Len(steps) |->
            <<steps[i].step, steps[i].linear, steps[i].exponential>>]

\* What a record keeps of a computation.
Outcome(doc) ==
    IF doc.status = "completed"
    THEN <<doc.status, doc.linear_result, doc.exponential_result,
           doc.total_steps>>
    ELSE <<doc.status>>

\* C14: when a synchronous run and a streamed run of the same valid request
\* both completed and no store call of either raised, the triples (step,
\* linear, exponential) of the synchronous response are those of the streamed
\* step messages, in order; the totals of the response are those of the
\* complete message; and the two records have the same status, totals and
\* total_steps.
C14_SyncAndStreamAgree ==
    \A s, t \in Runs :
        (/\ kind[s] = "sync" /\ kind[t] = "stream"
         /\ req[s] = req[t]
         /\ Completed(s) /\ Completed(t)
         /\ failed[s] = {} /\ failed[t] = {}) =>
            LET b == resp[s].body
                m == Last(out[t])
            IN  /\ SyncTriples(b) = StreamTriples(out[t])
                /\ Len(b.exponential_logs) = Len(b.linear_logs)
                /\ \A i \in 1 .. Len(b.exponential_logs) :
                     b.exponential_logs[i].step = i
                /\ b.linear_result = m.linear_result
                /\ b.exponential_result = m.exponential_result
                /\ b.total_steps = m.total_steps
                /\ Outcome(calcs[IdOf(s)]) = Outcome(calcs[IdOf(t)])
                /\ calcs[IdOf(s)].status = "completed"

\* Both endpoints completed base 3, exponent 2 without a failing store call.
C14_Witness ==
    \E s, t \in Runs :
        /\ kind[s] = "sync" /\ kind[t] = "stream"
        /\ req[s] = req[t]
        /\ req[s] = [base |-> Float(3, 0), exponent |-> 2]
        /\ Completed(s) /\ Completed(t)
        /\ failed[s] = {} /\ failed[t] = {}
        /\ Len(StreamTriples(out[t])) = 2

\* The steps for which the journal evs holds an event of type t.
JournaledSteps(evs, t) ==
    {evs[k].data.step : k \in {j \in 1 .. Len(evs) : evs[j].event_type = t}}

StepEventTypes == {"linear_step", "exponential_step"}

\* C15: the journal holds a linear_step or exponential_step event for step i
\* of a calculation only if the run that created the calculation has already
\* emitted the step message with index i.
C15_StepJournaledAfterEmitted ==
    \A r \in Runs :
        HasId(r) =>
            \A t \in StepEventTypes :
                JournaledSteps(events[IdOf(r)], t) \subseteq StepsOf(out[r])

\* Both events of step 2 are in the journal of a streamed run.
C15_Witness ==
    \E r \in Runs :
        /\ HasId(r) /\ kind[r] = "stream"
        /\ \A t \in StepEventTypes : 2 \in JournaledSteps(events[IdOf(r)], t)
        /\ 2 \in StepsOf(out[r])

\* A step of the system leaves the run r as it is: its messages, its place
\* in the generator, its failures and, when it created a record, the record
\* and the journal of its calculation.
Abandoned(r) ==
    /\ out'[r] = out[r]
    /\ pc'[r] = pc[r]
    /\ failed'[r] = failed[r]
    /\ HasId(r) =>
         /\ events'[IdOf(r)] = events[IdOf(r)]
         /\ calcs'[IdOf(r)] = calcs[IdOf(r)]

\* C16: once the consumer of a streamed run has disconnected the run is
\* abandoned where it was suspended: it is in no 1-second wait and never
\* enters one, no message is added to its stream, no event is added to the
\* journal of its calculation, and its record is never changed again, so
\* that a run disconnected before its complete message leaves the record
\* in_progress.
C16_DisconnectAbandonsRun ==
    /\ [](\A r \in Runs :
            ~connected[r] =>
                /\ pc[r] = "cancelled"
                /\ (HasId(r) /\ ~HasType(out[r], "complete")) =>
                     calcs[IdOf(r)].status = "in_progress")
    /\ [][\A r \in Runs : ~connected[r] => Abandoned(r)]_vars

\* The consumer of a two-step run left after step 1; step 1 is journaled,
\* step 2 never is, and meanwhile the other run has ended.
C16_Witness ==
    \E r, q \in Runs :
        /\ ~connected[r] /\ HasId(r)
        /\ req[r].exponent = 2
        /\ StepsOf(out[r]) = {1}
        /\ JournaledSteps(events[IdOf(r)], "linear_step") = {1}
        /\ q # r /\ pc[q] = "done"

\* The positions of the terminal messages among msgs.
TerminalMsgs(msgs) ==
    {k \in 1 .. Len(msgs) : msgs[k].type \in {"complete", "error"}}

\* C17: a streamed run emits at most one terminal message (complete or
\* error) and nothing after it; a run that failed validation emits that one
\* error message only; a run that has ended emitted exactly one terminal
\* message; and, the generators being resumed fairly, every streamed run
\* eventually ends, closing the channel, unless its consumer disconnects.
C17_StreamEndsWithOneTerminalMessage ==
    /\ [](\A r \in Runs :
            kind[r] = "stream" =>
                /\ TerminalMsgs(out[r]) \subseteq {Len(out[r])}
                /\ OutOfRange(req[r]) =>
                     /\ Len(out[r]) = 1
                     /\ out[r][1].type = "error"
                /\ pc[r] = "done" => TerminalMsgs(out[r]) = {Len(out[r])}
                /\ TerminalMsgs(out[r]) # {} =>
                     pc[r] \in {"yield_invalid", "yield_complete",
                                "yield_error", "done", "cancelled"})
    /\ \A r \in Runs :
          (kind[r] = "stream") ~> (pc[r] = "done" \/ ~connected[r])

\* One streamed run has ended on complete after two steps, another on the
\* error message of a rejected request, both with their consumer connected.
C17_Witness ==
    \E r, q \in Runs :
        /\ kind[r] = "stream" /\ pc[r] = "done" /\ connected[r]
        /\ Len(out[r]) = 4 /\ Last(out[r]).type = "complete"
        /\ kind[q] = "stream" /\ pc[q] = "done" /\ connected[q]
        /\ OutOfRange(req[q]) /\ Len(out[q]) = 1

\* This step of the system adds a step message with index above 1 to the
\* stream of run r.
EmitsLaterStep(r) ==
    /\ Len(out'[r]) = Len(out[r]) + 1
    /\ Last(out'[r]).type = "step"
    /\ Last(out'[r]).step > 1

\* C18: a streamed run emits step i+1 only on being resumed from the
\* 1-second wait, which it enters only after the message of step i has been
\* taken, step i being the last message emitted; a synchronous run is never
\* suspended, it is over in the step that starts it.
C18_OneSecondBetweenSteps ==
    /\ [](\A r \in Runs :
            /\ pc[r] = "sleep_step" =>
                 /\ kind[r] = "stream"
                 /\ Last(out[r]).type = "step"
            /\ kind[r] = "sync" => pc[r] = "done")
    /\ [][\A r \in Runs :
            /\ EmitsLaterStep(r) =>
                 /\ pc[r] = "sleep_step"
                 /\ Last(out'[r]).step = Last(out[r]).step + 1
            /\ (pc'[r] = "sleep_step" /\ pc[r] # "sleep_step") =>
                 pc[r] = "yield_step"]_vars

\* A streamed run has emitted steps 1 and 2, and a synchronous run has
\* answered with two steps.
C18_Witness ==
    \E r, q \in Runs :
        /\ kind[r] = "stream" /\ StepsOf(out[r]) = {1, 2}
        /\ kind[q] = "sync" /\ resp[q].status_code = 200
        /\ Len(resp[q].body.linear_logs) = 2

\* The step messages of run r are its own steps 1, 2, .. in order.
OwnStepsInOrder(r) ==
    LET steps == StepMsgs(out[r])
    IN  /\ Len(steps) <= req[r].exponent
        /\ \A i \in 1 .. Len(steps) :
             /\ steps[i].step = i
             /\ steps[i].linear = Times(req[r].base, i)
             /\ steps[i].exponential = Power(req[r].base, i)
        /\ HasType(out[r], "complete") => Len(steps) = req[r].exponent

\* Every step event journaled for the calculation of run r is of a step of
\* run r's own request.
OwnJournal(r) ==
    \A k \in 1 .. Len(events[IdOf(r)]) :
        LET ev == events[IdOf(r)][k]
        IN  /\ ev.calculation_id = IdOf(r)
            /\ ev.event_type = "linear_step" =>
                 ev.data.result = Times(req[r].base, ev.data.step)
            /\ ev.event_type = "exponential_step" =>
                 ev.data.result = Power(req[r].base, ev.data.step)

\* C19: whenever a streamed run is in its 1-second wait, every other run
\* that is suspended can be resumed; runs that created a record have
\* different calculation ids; a step taken by one run leaves the messages,
\* the record and the journal of every other run as they are; and every
\* streamed run delivers its own steps 1, 2, .. in order, all E of them
\* before complete, and journals only steps of its own request.
C19_SuspensionBlocksOnlyItsRun ==
    /\ [](\A r, q \in Runs :
            (r # q /\ pc[r] = "sleep_step" /\ pc[q] \in Suspended) =>
                ENABLED Resume(q))
    /\ [](\A r, q \in Runs :
            (r # q /\ HasId(r) /\ HasId(q)) => IdOf(r) # IdOf(q))
    /\ [](\A r \in Runs :
            kind[r] = "stream" =>
                /\ OwnStepsInOrder(r)
                /\ HasId(r) => OwnJournal(r))
    /\ [][\A r, q \in Runs :
            (r # q /\ pc'[r] # pc[r]) => Abandoned(q)]_vars

\* Two streamed runs of different requests are both in their 1-second wait,
\* one after its step 1 and one after its step 2.
C19_Witness ==
    \E r, q \in Runs :
        /\ kind[r] = "stream" /\ kind[q] = "stream"
        /\ pc[r] = "sleep_step" /\ pc[q] = "sleep_step"
        /\ req[r] # req[q]
        /\ StepsOf(out[r]) = {1}
        /\ StepsOf(out[q]) = {1, 2}

\* The position in the journal evs of the first event of type t for step i,
\* 0 when there is none.
PositionOf(evs, t, i) ==
    LET at == {k \in 1 .. Len(evs) :
                  evs[k].event_type = t /\ evs[k].data.step = i}
    IN  IF at = {} THEN 0 ELSE CHOOSE k \in at : \A j \in at : k <= j

\* C20: the journal of a calculation holds an exponential_step event for
\* step i only after the linear_step event for step i; and when a run
\* resumed after the message of a step adds no linear_step event to the
\* journal, it adds no event at all.
C20_ExponentialJournaledAfterLinear ==
    /\ [](\A id \in Runs :
            \A i \in JournaledSteps(events[id], "exponential_step") :
                /\ i \in JournaledSteps(events[id], "linear_step")
                /\ PositionOf(events[id], "linear_step", i)
                     < PositionOf(events[id], "exponential_step", i))
    /\ [][\A r \in Runs :
            (/\ pc[r] = "yield_step" /\ pc'[r] # pc[r]
             /\ JournaledSteps(events'[IdOf(r)], "linear_step")
                  = JournaledSteps(events[IdOf(r)], "linear_step")) =>
                events' = events]_vars

\* The linear_step write of step 1 failed, so neither event of step 1 is in
\* the journal, while both events of step 2 are.
C20_Witness ==
    \E r \in Runs :
        /\ kind[r] = "stream" /\ HasId(r)
        /\ failed[r] = {"linear_step"}
        /\ StepsOf(out[r]) = {1, 2}
        /\ JournaledSteps(events[IdOf(r)], "linear_step") = {2}
        /\ JournaledSteps(events[IdOf(r)], "exponential_step") = {2}

====
